---- MODULE Spec2Model ----
(***************************************************************************)
(* Model of the "create" command of the update creator (src/cmd/create.go):*)
(* indexing the distribution zip into a node tree, reading the update      *)
(* directory into an inventory, and resolving every root level entry of    *)
(* the update against the tree (no match / single match / multiple         *)
(* matches), with the copies and the added/modified lists that result.     *)
(*                                                                         *)
(* A Go string is a sequence of one-character strings, "a/b" being         *)
(* <<"a", "/", "b">>, so that Split, HasPrefix, TrimPrefix, path.Join and  *)
(* sort.Strings are computed character by character as the code does.      *)
(* An MD5 sum is an opaque TLA+ string ("" when unset).                    *)
(***************************************************************************)
EXTENDS Integers, Sequences, FiniteSets, TLC

\* ------------------------------------------------------------------ bounds
\* Number of distinct entries read from the distribution zip.
MaxEntries == 3
\* Length of the line typed at the destination prompt.
MaxDestLen == 2
\* Length of the line typed at the selection prompt.
MaxSelLen == 3

\* ----------------------------------------------------------------- strings
EmptyStr == <<>>
SEP == <<"/">>

\* Byte value of a character: the order sort.Strings compares by.
Code(c) ==
  CASE c = "\t" -> 9
    [] c = "\n" -> 10
    [] c = "\f" -> 12
    [] c = "\r" -> 13
    [] c = " " -> 32
    [] c = "," -> 44
    [] c = "." -> 46
    [] c = "/" -> 47
    [] c = "0" -> 48
    [] c = "1" -> 49
    [] c = "2" -> 50
    [] c = "a" -> 97
    [] c = "b" -> 98
    [] c = "u" -> 117
    [] c = "x" -> 120

Min2(m, n) == IF m < n THEN m ELSE n

\* s < t in the byte-wise lexicographic order of Go strings.
StrLess(s, t) ==
  \/ \E i \in 1..Min2(Len(s), Len(t)) :
        /\ \A j \in 1..(i - 1) : s[j] = t[j]
        /\ Code(s[i]) < Code(t[i])
  \/ /\ Len(s) < Len(t)
     /\ \A j \in 1..Len(s) : s[j] = t[j]

HasPrefix(s, p) == Len(p) <= Len(s) /\ SubSeq(s, 1, Len(p)) = p
HasSuffix(s, p) == Len(p) <= Len(s) /\ SubSeq(s, Len(s) - Len(p) + 1, Len(s)) = p
TrimPrefix(s, p) == IF HasPrefix(s, p) THEN SubSeq(s, Len(p) + 1, Len(s)) ELSE s
TrimSuffix(s, p) == IF HasSuffix(s, p) THEN SubSeq(s, 1, Len(s) - Len(p)) ELSE s

\* strings.Split(s, sep) for a one-character separator: Split("", sep) is [""].
RECURSIVE Split(_, _)
Split(s, sep) ==
  IF \E i \in 1..Len(s) : s[i] = sep
  THEN LET i == CHOOSE k \in 1..Len(s) : s[k] = sep /\ \A j \in 1..(k - 1) : s[j] # sep
       IN <<SubSeq(s, 1, i - 1)>> \o Split(SubSeq(s, i + 1, Len(s)), sep)
  ELSE <<s>>

\* strings.Join(segs, "/")
RECURSIVE JoinSlash(_)
JoinSlash(segs) ==
  IF Len(segs) = 0 THEN EmptyStr
  ELSE IF Len(segs) = 1 THEN segs[1]
  ELSE segs[1] \o SEP \o JoinSlash(Tail(segs))

\* The elements of a path that path.Clean keeps: not the empty ones, not ".".
RECURSIVE NonEmpty(_)
NonEmpty(segs) ==
  IF Len(segs) = 0 THEN <<>>
  ELSE IF Head(segs) = EmptyStr \/ Head(segs) = <<".">> THEN NonEmpty(Tail(segs))
  ELSE <<Head(segs)>> \o NonEmpty(Tail(segs))

\* path.Clean of a non-empty path without ".." elements: repeated and trailing
\* separators and "." elements go, a leading separator stays, and what would
\* be left empty is ".".
Clean(p) ==
  LET body == JoinSlash(NonEmpty(Split(p, "/")))
  IN IF Head(p) = "/" THEN SEP \o body
     ELSE IF body = EmptyStr THEN <<".">>
     ELSE body

\* path.Join(a, b): empty elements are ignored, the rest joined and cleaned.
PathJoin(a, b) ==
  IF a = EmptyStr /\ b = EmptyStr THEN EmptyStr
  ELSE IF a = EmptyStr THEN Clean(b)
  ELSE IF b = EmptyStr THEN Clean(a)
  ELSE Clean(a \o SEP \o b)

\* All strings over the characters cs of length at most n.
RECURSIVE StringsUpTo(_, _)
StringsUpTo(cs, n) ==
  IF n = 0 THEN {EmptyStr}
  ELSE LET shorter == StringsUpTo(cs, n - 1)
       IN shorter \cup {Append(s, c) : s \in shorter, c \in cs}

\* -------------------------------------------------------------------- tree
\* The node tree is a function from a node's key, the sequence of child names
\* leading to it from the root node (key <<>>), to the node's fields; a node's
\* childNodes are the keys one name longer, its parent the key one shorter.
RootKey == <<>>

\* createNewNode(): every field has its zero value.
createNewNode ==
  [name |-> EmptyStr, isDir |-> FALSE, relativeLocation |-> EmptyStr, md5Hash |-> ""]

EmptyTree == [k \in {RootKey} |-> createNewNode]

IsBelow(k, at) == Len(k) > Len(at) /\ SubSeq(k, 1, Len(at)) = at
Children(t, at) == {k \in DOMAIN t : Len(k) = Len(at) + 1 /\ IsBelow(k, at)}

\* root.childNodes[name] = &newNode: the child is replaced by a node without
\* children, so whatever was below the old child is no longer in the tree.
SetChild(t, key, n) ==
  LET keep == {k \in DOMAIN t : ~IsBelow(k, key)} \cup {key}
  IN [k \in keep |-> IF k = key THEN n ELSE t[k]]

NewNode(t, at, name, isDir, md5Hash) ==
  [name |-> name, isDir |-> isDir, md5Hash |-> md5Hash,
   relativeLocation |->
     IF Len(t[at].relativeLocation) = 0 THEN name
     ELSE t[at].relativeLocation \o SEP \o name]

\* AddToRootNode(root, path, isDir, md5Hash), root being the node with key at.
RECURSIVE AddToRootNode(_, _, _, _, _)
AddToRootNode(t, at, path, isDir, md5Hash) ==
  LET key == Append(at, Head(path))
  IN IF Len(path) = 1
     THEN SetChild(t, key, NewNode(t, at, Head(path), isDir, md5Hash))
     ELSE IF key \in DOMAIN t
     THEN AddToRootNode(t, key, Tail(path), isDir, md5Hash)
     ELSE SetChild(t, key, NewNode(t, at, Head(path), isDir, md5Hash))

RECURSIVE NodeExists(_, _, _, _)
NodeExists(t, at, path, isDir) ==
  LET key == Append(at, Head(path))
  IN IF key \in DOMAIN t
     THEN IF Len(path) > 1 THEN NodeExists(t, key, Tail(path), isDir)
          ELSE t[key].isDir = isDir
     ELSE FALSE

PathExists(t, relativePath, isDir) ==
  NodeExists(t, RootKey, Split(relativePath, "/"), isDir)

RECURSIVE CheckMD5(_, _, _, _)
CheckMD5(t, at, path, md5) ==
  LET key == Append(at, Head(path))
  IN IF key \in DOMAIN t
     THEN IF Len(path) > 1 THEN CheckMD5(t, key, Tail(path), md5)
          ELSE t[key].isDir = FALSE /\ t[key].md5Hash = md5
     ELSE FALSE

CompareMD5(t, relativePath, md5) ==
  CheckMD5(t, RootKey, Split(relativePath, "/"), md5)

\* Mutant of MatchNodes: the traversal does not go on below a match.
RECURSIVE MatchNodesStopAtMatch(_, _, _, _)
MatchNodesStopAtMatch(t, at, name, isDir) ==
  LET child == Append(at, name)
  IN IF child \in DOMAIN t /\ t[child].isDir = isDir THEN {at}
     ELSE UNION {MatchNodesStopAtMatch(t, k, name, isDir) :
                   k \in {c \in Children(t, at) : t[c].isDir}}

\* Mutant of MatchNodes: a child of the name matches whatever its kind.
RECURSIVE MatchNodesAnyKind(_, _, _, _)
MatchNodesAnyKind(t, at, name, isDir) ==
  LET child == Append(at, name)
      here == IF child \in DOMAIN t THEN {at} ELSE {}
  IN here \cup UNION {MatchNodesAnyKind(t, k, name, isDir) :
                        k \in {c \in Children(t, at) : t[c].isDir}}

\* The nodes FindMatches visits at which it writes matches[root.relativeLocation].
RECURSIVE MatchNodes(_, _, _, _)
MatchNodes(t, at, name, isDir) ==
  LET child == Append(at, name)
      here == IF child \in DOMAIN t /\ t[child].isDir = isDir THEN {at} ELSE {}
  IN here \cup UNION {MatchNodes(t, k, name, isDir) :
                        k \in {c \in Children(t, at) : t[c].isDir}}

\* The keys of the map FindMatches(root, name, isDir, matches) fills.
FindMatches(t, name, isDir) ==
  {t[k].relativeLocation : k \in MatchNodes(t, RootKey, name, isDir)}

\* matches[key] = node
Put(matches, key, n) ==
  [p \in DOMAIN matches \cup {key} |-> IF p = key THEN n ELSE matches[p]]

\* make(map[string]*node)
NoMatches == [p \in {} |-> RootKey]

\* The orders in which a range over a Go map may visit the elements of set.
Orders(set) ==
  {s \in [1..Cardinality(set) -> set] : \A i, j \in 1..Cardinality(set) : s[i] = s[j] => i = j}

RECURSIVE FindMatchesInto(_, _, _, _, _)
RECURSIVE RangeChildNodes(_, _, _, _, _)

\* Mutant of FindMatchesInto: a child of the name matches whatever its kind.
FindMatchesIntoAnyKind(t, at, name, isDir, matches) ==
  LET child == Append(at, name)
      written == IF child \in DOMAIN t
                 THEN Put(matches, t[at].relativeLocation, at) ELSE matches
  IN UNION {RangeChildNodes(t, order, name, isDir, written) :
              order \in Orders(Children(t, at))}

\* FindMatches(root, name, isDir, matches), root being the node with key at:
\* the maps it may leave. The node writes its own key first; the range over
\* root.childNodes then visits the children in an order Go does not fix, and
\* a node written later under a key replaces the node written before.
FindMatchesInto(t, at, name, isDir, matches) ==
  LET child == Append(at, name)
      written == IF child \in DOMAIN t /\ t[child].isDir = isDir
                 THEN Put(matches, t[at].relativeLocation, at) ELSE matches
  IN UNION {RangeChildNodes(t, order, name, isDir, written) :
              order \in Orders(Children(t, at))}

\* for _, childNode := range root.childNodes, the children coming in order.
RangeChildNodes(t, order, name, isDir, matches) ==
  IF Len(order) = 0 THEN {matches}
  ELSE LET childNode == Head(order)
           after == IF t[childNode].isDir
                    THEN FindMatchesInto(t, childNode, name, isDir, matches)
                    ELSE {matches}
       IN UNION {RangeChildNodes(t, Tail(order), name, isDir, m) : m \in after}

\* The maps FindMatches(&rootNode, name, isDir, matches) may fill from an
\* empty map.
FindMatchesMaps(t, name, isDir) == FindMatchesInto(t, RootKey, name, isDir, NoMatches)

\* --------------------------------------------------------------- inventory
\* MD5 sums: H0 is the sum of an empty payload (what readZip computes for a
\* directory entry), H1 and H2 those of two different file contents, HPartial
\* that of the bytes ioutil.ReadAll hands back when it fails before the end of
\* a payload.
H0 == "h0"
H1 == "h1"
H2 == "h2"
HPartial == "hp"

S(c) == <<c>>
P3(c, d, e) == <<c, d, e>>

\* An entry of the distribution zip, by its name after the product name prefix
\* is trimmed (readZip): a directory entry's name ends in "/". md5 is the sum
\* of its whole payload; opens tells whether file.Open() succeeds on it, and
\* readsFully whether ioutil.ReadAll reaches the end of its payload.
ZipEntry(name, isDir, md5) ==
  [name |-> name, isDir |-> isDir, md5 |-> md5, opens |-> TRUE, readsFully |-> TRUE]

ArchivePool ==
  { ZipEntry(EmptyStr, TRUE, H0),
    ZipEntry(<<"a", "/">>, TRUE, H0),
    ZipEntry(<<"a", "/", "a", "/">>, TRUE, H0),
    ZipEntry(P3("a", "/", "b"), FALSE, H1),
    ZipEntry(P3("a", "/", "b"), FALSE, H2),
    ZipEntry(S("a"), FALSE, H1),
    ZipEntry(S("b"), FALSE, H1),
    ZipEntry(<<"a", "/", "a", "/", "b">>, FALSE, H1) }

\* A distribution with an entry whose name begins with a separator after the
\* product name: directory a/a/ is listed as <product>/a/a/ and as
\* <product>//a/a/.
SlashPool ==
  { ZipEntry(<<"a", "/", "a", "/">>, TRUE, H0),
    ZipEntry(<<"/", "a", "/", "a", "/">>, TRUE, H0) }

\* A directory of the distribution where the update directory holds a file.
CollidingEntries == { ZipEntry(<<"a", "/", "b", "/">>, TRUE, H0) }

\* Entries that cannot be opened, or not read to their end.
FaultyEntries ==
  { [ZipEntry(S("b"), FALSE, H1) EXCEPT !.readsFully = FALSE],
    [ZipEntry(S("b"), FALSE, H1) EXCEPT !.opens = FALSE] }

\* readZip: the sum it computes over the data ioutil.ReadAll returned, whose
\* error it does not look at.
ComputedMD5(e) == IF e.readsFully THEN e.md5 ELSE HPartial

\* Contents of the update directory, by path relative to the update root.
FsDirA  == [relativePath |-> S("a"),            isDir |-> TRUE,  md5 |-> ""]
FsFileAB == [relativePath |-> P3("a", "/", "b"), isDir |-> FALSE, md5 |-> H1]
FsFileAb == [relativePath |-> <<"a", "b">>,      isDir |-> FALSE, md5 |-> H1]
FsFileB == [relativePath |-> S("b"),            isDir |-> FALSE, md5 |-> H1]
FsDirX  == [relativePath |-> S("x"),            isDir |-> TRUE,  md5 |-> ""]
FsFileXB == [relativePath |-> P3("x", "/", "b"), isDir |-> FALSE, md5 |-> H1]
FsFileX == [relativePath |-> S("x"),            isDir |-> FALSE, md5 |-> H1]

UpdateDirs ==
  { {FsDirA, FsFileAB, FsFileAb, FsFileX},
    {FsFileB, FsDirX, FsFileXB} }

\* The sets of files of the update directory fs that cannot be read (util.GetMD5
\* fails on them): none, or one of them.
UnreadableSets(fs) == {{}} \cup {{e} : e \in {x \in fs : ~x.isDir}}

BaseName(p) == LET segs == Split(p, "/") IN segs[Len(segs)]

\* filepath.Walk visits p before q: a directory before what it holds, the names
\* of one directory in lexical order.
WalkBefore(p, q) ==
  LET u == Split(p, "/")
      v == Split(q, "/")
  IN \/ \E i \in 1..Min2(Len(u), Len(v)) :
          /\ \A j \in 1..(i - 1) : u[j] = v[j]
          /\ StrLess(u[i], v[i])
     \/ /\ Len(u) < Len(v)
        /\ \A j \in 1..Len(u) : u[j] = v[j]

\* The walk function returns an error at entry e: e is a file whose name is not
\* ignored and util.GetMD5 fails on it.
HashFails(e, ignoredFiles, unreadable) ==
  /\ BaseName(e.relativePath) \notin ignoredFiles
  /\ ~e.isDir
  /\ e \in unreadable

\* filepath.Walk's result, which readDirectory drops: an error, when the walk
\* function returned one.
WalkFails(fs, ignoredFiles, unreadable) ==
  \E e \in fs : HashFails(e, ignoredFiles, unreadable)

\* The entries the walk function is called on: the walk ends at the first
\* entry it returns an error at. Returning nil at an ignored name skips
\* nothing: the walk goes on below an ignored directory.
Walked(fs, ignoredFiles, unreadable) ==
  {e \in fs : \A f \in fs : HashFails(f, ignoredFiles, unreadable)
                               => ~WalkBefore(f.relativePath, e.relativePath)}

\* The update directory path as typed on the command line: the directory u
\* of the working directory, whose own name is the name of none of its
\* entries, named by its clean path,
CleanDirectoryPath == S("u")
\* or by that path, with a trailing separator, or with "./" in front.
UpdateDirectoryPaths == {CleanDirectoryPath, <<"u", "/">>, <<".", "/", "u">>}

\* createUpdate, lines 100-101: the typed path less one trailing separator.
TrimRoot(path) == TrimSuffix(TrimSuffix(path, SEP), <<"\\">>)

\* The path filepath.Walk(root, ...) hands the walk function for the entry e
\* below root: the clean join of root and the names down to e.
AbsolutePath(root, e) == PathJoin(root, e.relativePath)

\* relativePath := strings.TrimPrefix(absolutePath, root + "/"): the key of
\* entry e in allFilesMap. Nothing is trimmed when root + "/" is no prefix of
\* the clean path, as with a root typed with a trailing separator.
RelativePath(root, e) == TrimPrefix(AbsolutePath(root, e), root \o SEP)

\* path.Join(root, fileInfo.Name()) == absolutePath
AtRootLevel(root, e) ==
  PathJoin(root, BaseName(e.relativePath)) = AbsolutePath(root, e)

\* readDirectory(root, ignoredFiles): the three maps it returns. An entry
\* whose own name is ignored is left out, and so is the file the hashing failed
\* at, which is a root level file all the same if it lies at the root level.
\* allFilesMap is keyed by relativePath, the two other maps by Name().
ReadAllFiles(root, fs, ignoredFiles, unreadable) ==
  LET kept == {e \in Walked(fs, ignoredFiles, unreadable) :
                 /\ BaseName(e.relativePath) \notin ignoredFiles
                 /\ ~HashFails(e, ignoredFiles, unreadable)}
  IN [p \in {RelativePath(root, e) : e \in kept} |->
        LET e == CHOOSE x \in kept : RelativePath(root, x) = p
        IN [isDir |-> e.isDir, md5 |-> e.md5]]

IsRootLevel(p) == \A i \in 1..Len(p) : p[i] # "/"

ReadRootLevelDirectories(root, fs, ignoredFiles, unreadable) ==
  {BaseName(e.relativePath) :
     e \in {x \in Walked(fs, ignoredFiles, unreadable) :
              /\ BaseName(x.relativePath) \notin ignoredFiles
              /\ x.isDir
              /\ AtRootLevel(root, x)}}

ReadRootLevelFiles(root, fs, ignoredFiles, unreadable) ==
  {BaseName(e.relativePath) :
     e \in {x \in Walked(fs, ignoredFiles, unreadable) :
              /\ BaseName(x.relativePath) \notin ignoredFiles
              /\ ~x.isDir
              /\ AtRootLevel(root, x)}}

\* getIgnoredFilesInUpdate(): the resource file names, mandatory, optional
\* and skipped (here one, "x").
IgnoredFiles == {S("x")}

\* getResourceFiles(): what the configuration may make of the ignored names.
\* A name listed as mandatory is in the map with TRUE, one listed as optional
\* with FALSE, and one listed to be skipped only is not in the map.
ResourceFileMaps == {[f \in F |-> m] : F \in SUBSET IgnoredFiles, m \in BOOLEAN}

\* getAllMatchingFiles(filepath, allFilesMap)
getAllMatchingFiles(filepath, files) ==
  {f \in DOMAIN files : ~files[f].isDir /\ HasPrefix(f, filepath) /\ f # filepath}

\* ------------------------------------------------------------------- state
VARIABLES
  phase,        \* "scan", "index", "resolve": where createUpdate is; "done" once
                \* the update zip is written and startValidation was called;
                \* "exited" after util.HandleErrorAndExit got an error
  updateDirectoryPath, \* the update directory path as typed (args[0])
  updateDir,    \* the contents of the update directory
  unreadable,   \* the files of the update directory util.GetMD5 fails on
  archive,      \* the entries of the distribution zip (zipReader.Reader.File)
  copyFaults,   \* the files util.CreateDirectory or util.CopyFile fails for
  md5Disabled,  \* viper CHECK_MD5_DISABLED
  tree,         \* rootNode
  zipRead,      \* the zip entries readZip has read (its reader is closed at the end)
  allFilesMap,  \* readDirectory's map of every entry of the update
  dirsLeft,     \* root level directories not yet handled
  filesLeft,    \* root level files not yet handled
  st,           \* the prompt the handler of the current entry waits at, or "Idle"
  cur,          \* the root level entry being handled
  dest,         \* handleNewFile's relativeLocationInDistribution
  copies,       \* the util.CopyFile calls copyFile made, in order
  added,        \* updateDescriptor.File_changes.Added_files
  modified,     \* updateDescriptor.File_changes.Modified_files
  last,         \* how the handling of the latest finished entry went
  copyErr,      \* the error copyFile handed to util.HandleErrorAndExit, if any
  packaging     \* createUpdate after its loops: the resource files copied to
                \* temp/<update name>/, the call that failed if any, whether the
                \* update zip is written, temp removed and validation started

vars == <<phase, updateDirectoryPath, updateDir, unreadable, archive, copyFaults, md5Disabled, tree, zipRead, allFilesMap,
          dirsLeft, filesLeft, st, cur, dest, copies, added, modified, last, copyErr, packaging>>

\* viper's UPDATE_ROOT, set by createUpdate from the typed path.
updateRoot == TrimRoot(updateDirectoryPath)

\* copyFile: source := path.Join(locationInUpdate, filename), the file that
\* util.CopyFile reads.
SourcePath(filename) == PathJoin(updateRoot, filename)

\* ----------------------------------------------------------------- copying
\* temp/<update name>/carbon.home
CarbonHome == <<"t", "/", "u", "/", "c">>

\* The path copyFile writes to, relative to carbon.home, and records.
CopyRelativePath(filename, relativeLocationInTemp) ==
  LET destination == PathJoin(CarbonHome, relativeLocationInTemp)
      fullPath == PathJoin(destination, filename)
  IN TrimPrefix(fullPath, CarbonHome \o SEP)

\* No error: err == nil.
NoError == [source |-> EmptyStr, at |-> "nil", after |-> 0]

\* util.HandleErrorAndExit(err): the run ends there when err is not nil.
HandleErrorAndExit(err) == err.at # "nil"

\* The error copyFile gets for filename from util.CreateDirectory or from
\* util.CopyFile, faults being the files these fail for; after is the number
\* of copies made before.
CopyError(faults, filename, after) ==
  LET hit == {f \in faults : SourcePath(f.source) = SourcePath(filename)}
  IN IF hit # {}
     THEN [source |-> filename, after |-> after, at |-> (CHOOSE f \in hit : TRUE).at]
     ELSE NoError

\* The sets of files of the update directory fs whose copy fails: one file,
\* at one of the two calls. On the way of a resource file the only call whose
\* error is looked at is util.CopyFile.
CopyFaultSets(fs) ==
  {{[source |-> e.relativePath, at |-> call]} :
     e \in {x \in fs : ~x.isDir}, call \in {"CreateDirectory", "CopyFile"}}
    \ {{[source |-> f, at |-> "CreateDirectory"]} : f \in IgnoredFiles}

\* Mutant of copyFile: every copy is recorded as added.
copyFileAlwaysAdded(m, t, filename, relativeLocationInTemp) ==
  LET relativePath == CopyRelativePath(filename, relativeLocationInTemp)
  IN [copies |-> Append(m.copies, [source |-> filename,
                                   location |-> relativeLocationInTemp,
                                   fullPath |-> relativePath]),
      added |-> Append(m.added, relativePath),
      modified |-> m.modified,
      err |-> m.err]

\* Mutant of copyFile: a path already in a list is not recorded again.
copyFileDeduplicated(m, t, filename, relativeLocationInTemp) ==
  LET relativePath == CopyRelativePath(filename, relativeLocationInTemp)
      copied == Append(m.copies, [source |-> filename,
                                  location |-> relativeLocationInTemp,
                                  fullPath |-> relativePath])
      recorded == \E i \in 1..Len(m.added \o m.modified) :
                    (m.added \o m.modified)[i] = relativePath
  IN IF recorded
     THEN [copies |-> copied, added |-> m.added, modified |-> m.modified,
           err |-> m.err]
     ELSE IF PathExists(t, relativePath, FALSE)
     THEN [copies |-> copied, added |-> m.added,
           modified |-> Append(m.modified, relativePath), err |-> m.err]
     ELSE [copies |-> copied, added |-> Append(m.added, relativePath),
           modified |-> m.modified, err |-> m.err]

\* Mutant of copyFile: a path copied to before counts as a file of the
\* baseline.
copyFileSeesEarlierCopies(m, t, filename, relativeLocationInTemp) ==
  LET relativePath == CopyRelativePath(filename, relativeLocationInTemp)
      copied == Append(m.copies, [source |-> filename,
                                  location |-> relativeLocationInTemp,
                                  fullPath |-> relativePath])
      copiedBefore == \E i \in 1..Len(m.copies) : m.copies[i].fullPath = relativePath
  IN IF PathExists(t, relativePath, FALSE) \/ copiedBefore
     THEN [copies |-> copied, added |-> m.added,
           modified |-> Append(m.modified, relativePath), err |-> m.err]
     ELSE [copies |-> copied, added |-> Append(m.added, relativePath),
           modified |-> m.modified, err |-> m.err]

\* Mutant of copyFile: the copy counts as a modification when the directory
\* it goes to is one of the baseline.
copyFileByLocation(m, t, filename, relativeLocationInTemp) ==
  LET relativePath == CopyRelativePath(filename, relativeLocationInTemp)
      copied == Append(m.copies, [source |-> filename,
                                  location |-> relativeLocationInTemp,
                                  fullPath |-> relativePath])
  IN IF PathExists(t, relativeLocationInTemp, TRUE)
     THEN [copies |-> copied, added |-> m.added,
           modified |-> Append(m.modified, relativePath), err |-> m.err]
     ELSE [copies |-> copied, added |-> Append(m.added, relativePath),
           modified |-> m.modified, err |-> m.err]

\* Mutant of copyFile: a failed copy is left out and the run goes on.
copyFileKeepsGoing(m, t, filename, relativeLocationInTemp) ==
  LET relativePath == CopyRelativePath(filename, relativeLocationInTemp)
      copied == Append(m.copies, [source |-> filename,
                                  location |-> relativeLocationInTemp,
                                  fullPath |-> relativePath])
      err == CopyError(copyFaults, filename, Len(m.copies))
  IN IF HandleErrorAndExit(err) THEN [m EXCEPT !.err = err]
     ELSE IF PathExists(t, relativePath, FALSE)
     THEN [copies |-> copied, added |-> m.added,
           modified |-> Append(m.modified, relativePath), err |-> m.err]
     ELSE [copies |-> copied, added |-> Append(m.added, relativePath),
           modified |-> m.modified, err |-> m.err]

\* copyFile(filename, updateRoot, relativeLocationInTemp, rootNode, descriptor)
\* on m, the staging area and the descriptor's lists: one copy, one record.
\* Nothing runs after util.HandleErrorAndExit got an error, from this call or
\* from one before it.
copyFile(m, t, filename, relativeLocationInTemp) ==
  LET relativePath == CopyRelativePath(filename, relativeLocationInTemp)
      copied == Append(m.copies, [source |-> filename,
                                  location |-> relativeLocationInTemp,
                                  fullPath |-> relativePath])
      err == CopyError(copyFaults, filename, Len(m.copies))
  IN IF HandleErrorAndExit(m.err) THEN m
     ELSE IF HandleErrorAndExit(err) THEN [m EXCEPT !.err = err]
     ELSE IF PathExists(t, relativePath, FALSE)
     THEN [copies |-> copied, added |-> m.added,
           modified |-> Append(m.modified, relativePath), err |-> m.err]
     ELSE [copies |-> copied, added |-> Append(m.added, relativePath),
           modified |-> m.modified, err |-> m.err]

\* for _, match := range files { copyFile(match, updateRoot, location, ...) }
RECURSIVE CopyEach(_, _, _, _)
CopyEach(m, t, files, location) ==
  IF Len(files) = 0 THEN m
  ELSE CopyEach(copyFile(m, t, Head(files), location), t, Tail(files), location)

\* The same loop with the MD5 check in front of each copy.
RECURSIVE CopyEachChecked(_, _, _, _, _, _)
CopyEachChecked(m, t, inv, files, location, disabled) ==
  IF Len(files) = 0 THEN m
  ELSE LET match == Head(files)
           md5Matches == CompareMD5(t, PathJoin(location, match), inv[match].md5)
           next == IF ~disabled /\ md5Matches THEN m
                   ELSE copyFile(m, t, match, location)
       IN CopyEachChecked(next, t, inv, Tail(files), location, disabled)

\* ------------------------------------------------------------ user input
\* The lines the user may type at a yes/no prompt, a destination prompt and
\* the selection prompt; a selection may come with the new line that ended it
\* or after a tab.
PreferenceInputs == {EmptyStr, S("y"), S("n"), S("r"), S("x")}
DestinationInputs == StringsUpTo({"a", "/"}, MaxDestLen)
SelectionInputs ==
  LET typed == StringsUpTo({"0", "1", "2", ",", "x"}, MaxSelLen)
      shorter == StringsUpTo({"0", "1", "2", ",", "x"}, MaxSelLen - 1)
  IN typed \cup {l \o <<"\n">> : l \in shorter} \cup {<<"\t">> \o l : l \in shorter}

\* util.ProcessUserPreference(preference)
ProcessUserPreference(preference) ==
  CASE preference = S("y") -> "YES"
    [] preference = S("n") -> "NO"
    [] preference = S("r") -> "REENTER"
    [] OTHER -> "OTHER"

\* strconv.Itoa(i) for 0 <= i <= 99
Digit(d) == <<"0", "1", "2", "3", "4", "5", "6", "7", "8", "9">>[d + 1]
Itoa(i) == IF i < 10 THEN <<Digit(i)>> ELSE <<Digit(i \div 10), Digit(i % 10)>>

\* util.IsUserPreferencesValid(selectedIndices, length): a list is accepted
\* if it holds 0, or if every entry is an index from 1 to length.
IsUserPreferencesValid(selectedIndices, length) ==
  \/ \E i \in 1..Len(selectedIndices) : selectedIndices[i] = Itoa(0)
  \/ \A i \in 1..Len(selectedIndices) :
        \E k \in 1..length : selectedIndices[i] = Itoa(k)

\* The white space characters strings.TrimSpace removes, among the
\* characters a typed line is made of here: tab, new line, form feed,
\* carriage return and space.
WhiteSpace == {"\t", "\n", "\f", "\r", " "}

\* strings.TrimSpace(s): s without its leading and trailing white space.
RECURSIVE TrimSpace(_)
TrimSpace(s) ==
  IF Len(s) > 0 /\ Head(s) \in WhiteSpace THEN TrimSpace(Tail(s))
  ELSE IF Len(s) > 0 /\ s[Len(s)] \in WhiteSpace THEN TrimSpace(SubSeq(s, 1, Len(s) - 1))
  ELSE s

\* sort.Strings(list): the list in increasing order, duplicates kept.
RECURSIVE SortStrings(_)
SortStrings(list) ==
  IF Len(list) <= 1 THEN list
  ELSE LET i == CHOOSE k \in 1..Len(list) :
                  \A j \in 1..Len(list) : ~StrLess(list[j], list[k])
           rest == SubSeq(list, 1, i - 1) \o SubSeq(list, i + 1, Len(list))
       IN <<list[i]>> \o SortStrings(rest)

\* The sorted allPaths of generateLocationTable.
SortedPaths(matches) ==
  CHOOSE s \in Orders(matches) : \A i \in 1..(Len(s) - 1) : StrLess(s[i], s[i + 1])

\* Mutant of generateLocationTable: allPaths is numbered without being sorted
\* (here: in decreasing order).
generateLocationTableUnsorted(matches) ==
  LET allPaths == SortedPaths(matches)
  IN [key \in {Itoa(i) : i \in 1..Len(allPaths)} |->
        allPaths[CHOOSE i \in 1..Len(allPaths) : Itoa(Len(allPaths) + 1 - i) = key]]

\* generateLocationTable(filename, matches): its indexMap.
generateLocationTable(matches) ==
  LET allPaths == SortedPaths(matches)
  IN [key \in {Itoa(i) : i \in 1..Len(allPaths)} |->
        allPaths[CHOOSE i \in 1..Len(allPaths) : Itoa(i) = key]]

\* indexMap[selectedIndex]: a missing key reads as the empty string.
IndexLookup(indexMap, selectedIndex) ==
  IF selectedIndex \in DOMAIN indexMap THEN indexMap[selectedIndex] ELSE EmptyStr

\* ---------------------------------------------------------------- handlers
\* Mutant of handleSingleMatch: the copies go to the root of the distribution.
handleSingleMatchToRoot(m, t, inv, filename, location, isDir, disabled) ==
  IF isDir
  THEN {CopyEachChecked(m, t, inv, o, EmptyStr, disabled) :
          o \in Orders(getAllMatchingFiles(filename, inv))}
  ELSE {copyFile(m, t, filename, EmptyStr)}

\* handleSingleMatch: the results it may leave (one per order of the range
\* over the files below a directory).
handleSingleMatch(m, t, inv, filename, location, isDir, disabled) ==
  IF isDir
  THEN {CopyEachChecked(m, t, inv, o, location, disabled) :
          o \in Orders(getAllMatchingFiles(filename, inv))}
  ELSE {copyFile(m, t, filename, location)}

\* The copy loops of handleMultipleMatches over the sorted selectedIndices.
RECURSIVE CopySelected(_, _, _, _, _, _, _, _)
CopySelected(m, t, inv, filename, isDir, indexMap, selectedIndices, disabled) ==
  IF Len(selectedIndices) = 0 THEN {m}
  ELSE LET pathInDistribution == IndexLookup(indexMap, Head(selectedIndices))
           after ==
             IF isDir
             THEN {CopyEachChecked(m, t, inv, o, pathInDistribution, disabled) :
                     o \in Orders(getAllMatchingFiles(filename, inv))}
             ELSE {copyFile(m, t, filename, pathInDistribution)}
       IN UNION {CopySelected(m2, t, inv, filename, isDir, indexMap,
                              Tail(selectedIndices), disabled) : m2 \in after}

\* The loop over getAllMatchingFiles in handleNewFile (no MD5 check).
CopyAllMatching(m, t, inv, filename, location) ==
  {CopyEach(m, t, o, location) : o \in Orders(getAllMatchingFiles(filename, inv))}

\* Mutant of DestinationExists: a file is looked for like a directory, under
\* its own name and kind below the destination.
DestinationExistsJoined(t, filename, isDir, relativeLocationInDistribution) ==
  PathExists(t, PathJoin(relativeLocationInDistribution, filename), isDir)

\* handleNewFile: the exists test on the trimmed destination.
DestinationExists(t, filename, isDir, relativeLocationInDistribution) ==
  IF isDir
  THEN PathExists(t, PathJoin(relativeLocationInDistribution, filename), TRUE)
  ELSE PathExists(t, relativeLocationInDistribution, TRUE)

\* handleNewFile: the destination as read, one separator trimmed at each end.
TrimDestination(line) == TrimSuffix(TrimPrefix(line, SEP), SEP)

\* ------------------------------------------------------------- run state
NoEntry == [name |-> EmptyStr, isDir |-> FALSE]
NoLast == [name |-> EmptyStr, isDir |-> FALSE, flow |-> "none",
           selected |-> <<>>, locations |-> <<>>, from |-> 0, records |-> 0]

\* createUpdate before step 8: nothing of the update is packaged yet.
NoPackaging == [resources |-> <<>>, err |-> "nil", zip |-> FALSE,
                tempRemoved |-> FALSE, validation |-> FALSE]

Staging == [copies |-> copies, added |-> added, modified |-> modified, err |-> copyErr]

\* The start of createUpdate, whatever the update directory and the zip hold.
Start ==
  /\ phase = "scan"
  /\ updateDir \in UpdateDirs
  /\ md5Disabled \in BOOLEAN
  /\ tree = EmptyTree
  /\ zipRead = {}
  /\ allFilesMap = <<>>
  /\ dirsLeft = {}
  /\ filesLeft = {}
  /\ st = "Idle"
  /\ cur = NoEntry
  /\ dest = EmptyStr
  /\ copies = <<>>
  /\ added = <<>>
  /\ modified = <<>>
  /\ last = NoLast
  /\ copyErr = NoError
  /\ packaging = NoPackaging

\* Every file of the update directory and every entry of the zip can be read,
\* and the update directory is named by its clean path.
Init ==
  /\ Start
  /\ updateDirectoryPath = CleanDirectoryPath
  /\ unreadable = {}
  /\ archive = ArchivePool
  /\ copyFaults = {}

\* Every input can be read, and the update directory is named by any of the
\* paths that can be typed for it.
InitTypedPaths ==
  /\ Start
  /\ updateDirectoryPath \in UpdateDirectoryPaths
  /\ unreadable = {}
  /\ archive = ArchivePool
  /\ copyFaults = {}

\* Every input can be read; the distribution may list a directory under a
\* name that begins with a separator.
InitSlashNames ==
  /\ Start
  /\ updateDirectoryPath = CleanDirectoryPath
  /\ unreadable = {}
  /\ archive \in {ArchivePool, SlashPool}
  /\ copyFaults = {}

\* Some file of the update directory or some entries of the zip may fail to be
\* read, the zip may hold a directory where the update holds a file, and the
\* update directory is named by any of the paths that can be typed for it.
InitFaults ==
  /\ Start
  /\ updateDirectoryPath \in UpdateDirectoryPaths
  /\ unreadable \in UnreadableSets(updateDir)
  /\ archive = ArchivePool \cup CollidingEntries \cup FaultyEntries
  /\ copyFaults = {}

\* Every input can be read, the update directory is named by its clean path,
\* and the copy of one file of the update directory fails, at the creation of
\* its parent directory or at the copy itself.
InitCopyFaults ==
  /\ Start
  /\ updateDirectoryPath = CleanDirectoryPath
  /\ unreadable = {}
  /\ archive = ArchivePool
  /\ copyFaults \in CopyFaultSets(updateDir)

\* createUpdate step 5: readDirectory on the path as typed (not on the
\* trimmed updateRoot); its error is always nil, so that
\* util.HandleErrorAndExit(err, "") goes on.
ReadDirectory ==
  /\ phase = "scan"
  /\ allFilesMap' = ReadAllFiles(updateDirectoryPath, updateDir, IgnoredFiles, unreadable)
  /\ dirsLeft' = ReadRootLevelDirectories(updateDirectoryPath, updateDir, IgnoredFiles,
                                          unreadable)
  /\ filesLeft' = ReadRootLevelFiles(updateDirectoryPath, updateDir, IgnoredFiles, unreadable)
  /\ phase' = "index"
  /\ UNCHANGED <<updateDirectoryPath, updateDir, unreadable, archive, copyFaults, md5Disabled, tree, zipRead, st, cur, dest,
                 copies, added, modified, last, copyErr, packaging>>

\* readZip: one turn of its loop over the entries of the zip. When file.Open()
\* fails readZip returns the error and util.HandleErrorAndExit(err) ends the
\* run; the error of ioutil.ReadAll is not looked at.
ReadZipEntry ==
  /\ phase = "index"
  /\ \E e \in archive :
       /\ Cardinality(zipRead \cup {e}) <= MaxEntries
       /\ zipRead' = zipRead \cup {e}
       /\ IF e.opens
          THEN /\ tree' = AddToRootNode(tree, RootKey, Split(e.name, "/"), e.isDir,
                                        ComputedMD5(e))
               /\ phase' = phase
          ELSE /\ tree' = tree
               /\ phase' = "exited"
  /\ UNCHANGED <<updateDirectoryPath, updateDir, unreadable, archive, copyFaults, md5Disabled, allFilesMap, dirsLeft, filesLeft, st,
                 cur, dest, copies, added, modified, last, copyErr, packaging>>

\* readZip returns: the reader is closed and the tree handed to createUpdate.
ReadZipDone ==
  /\ phase = "index"
  /\ phase' = "resolve"
  /\ zipRead' = {}
  /\ UNCHANGED <<updateDirectoryPath, updateDir, unreadable, archive, copyFaults, md5Disabled, tree, allFilesMap, dirsLeft, filesLeft, st,
                 cur, dest, copies, added, modified, last, copyErr, packaging>>

\* The entries the loops of createUpdate may take next: directories first.
NextEntries ==
  IF dirsLeft # {} THEN {[name |-> d, isDir |-> TRUE] : d \in dirsLeft}
  ELSE {[name |-> f, isDir |-> FALSE] : f \in filesLeft}

Take(e) ==
  /\ dirsLeft' = IF e.isDir THEN dirsLeft \ {e.name} ELSE dirsLeft
  /\ filesLeft' = IF e.isDir THEN filesLeft ELSE filesLeft \ {e.name}

\* The handler of entry e is through with result m: it returns to the loop of
\* createUpdate or, when a copy of it failed, the run has ended within it at
\* util.HandleErrorAndExit(err).
Finish(e, m, flow, selected, locations) ==
  /\ copies' = m.copies
  /\ added' = m.added
  /\ modified' = m.modified
  /\ copyErr' = m.err
  /\ UNCHANGED packaging
  /\ IF HandleErrorAndExit(m.err)
     THEN /\ phase' = "exited"
          /\ cur' = e
          /\ UNCHANGED <<st, dest, last>>
     ELSE /\ phase' = phase
          /\ last' = [name |-> e.name, isDir |-> e.isDir, flow |-> flow,
                      selected |-> selected, locations |-> locations,
                      from |-> Len(copies), records |-> Len(added) + Len(modified)]
          /\ st' = "Idle"
          /\ cur' = NoEntry
          /\ dest' = EmptyStr

\* case 0: handleNoMatch asks whether to add the entry as a new file.
NoMatchFound ==
  /\ phase = "resolve" /\ st = "Idle"
  /\ \E e \in NextEntries :
       /\ FindMatches(tree, e.name, e.isDir) = {}
       /\ Take(e)
       /\ cur' = e
  /\ st' = "AwaitingAddNew"
  /\ UNCHANGED <<phase, updateDirectoryPath, updateDir, unreadable, archive, copyFaults, md5Disabled, tree, zipRead, allFilesMap, dest,
                 copies, added, modified, last, copyErr, packaging>>

\* case 1: handleSingleMatch runs to its end.
SingleMatchFound ==
  /\ phase = "resolve" /\ st = "Idle"
  /\ \E e \in NextEntries :
       LET matches == FindMatches(tree, e.name, e.isDir)
       IN /\ Cardinality(matches) = 1
          /\ Take(e)
          /\ \E location \in matches :
               \E m \in handleSingleMatch(Staging, tree, allFilesMap, e.name, location,
                                          e.isDir, md5Disabled) :
                 Finish(e, m, "single", <<>>, <<location>>)
  /\ UNCHANGED <<updateDirectoryPath, updateDir, unreadable, archive, copyFaults, md5Disabled, tree, zipRead, allFilesMap>>

\* default: handleMultipleMatches shows the table and asks for the selection.
MultipleMatchesFound ==
  /\ phase = "resolve" /\ st = "Idle"
  /\ \E e \in NextEntries :
       /\ Cardinality(FindMatches(tree, e.name, e.isDir)) > 1
       /\ Take(e)
       /\ cur' = e
  /\ st' = "AwaitingSelection"
  /\ UNCHANGED <<phase, updateDirectoryPath, updateDir, unreadable, archive, copyFaults, md5Disabled, tree, zipRead, allFilesMap, dest,
                 copies, added, modified, last, copyErr, packaging>>

\* Mutant of Prompt: the handler does not wait for the answer, the loop of
\* createUpdate goes on while the question is open.
PromptWithoutWaiting(next) ==
  /\ st' = "Idle"
  /\ UNCHANGED <<phase, cur, copies, added, modified, last, copyErr, packaging>>

\* The handler goes to a prompt (the same one when it asks again).
Prompt(next) ==
  /\ st' = next
  /\ UNCHANGED <<phase, cur, copies, added, modified, last, copyErr, packaging>>

\* Mutant of AddNewOutcome: the empty answer counts as yes.
AddNewOutcomeDefaultYes(line) ==
  LET preference == IF Len(line) = 0 THEN S("y") ELSE line
      userPreference == ProcessUserPreference(preference)
  IN CASE userPreference = "YES" -> "AwaitingDestination"
       [] userPreference = "NO" -> "Skipped"
       [] OTHER -> "AwaitingAddNew"

\* handleNoMatch: what follows the answer to "Do you want to add it as a new
\* file? [y/N]": handleNewFile's destination prompt, the skip, or the question
\* again.
AddNewOutcome(line) ==
  LET preference == IF Len(line) = 0 THEN S("n") ELSE line
      userPreference == ProcessUserPreference(preference)
  IN CASE userPreference = "YES" -> "AwaitingDestination"
       [] userPreference = "NO" -> "Skipped"
       [] OTHER -> "AwaitingAddNew"

AnswerAddNew ==
  /\ phase = "resolve" /\ st = "AwaitingAddNew"
  /\ \E line \in PreferenceInputs :
       LET outcome == AddNewOutcome(line)
       IN IF outcome = "Skipped"
          THEN Finish(cur, Staging, "declined", <<>>, <<>>)
          ELSE Prompt(outcome) /\ UNCHANGED dest
  /\ UNCHANGED <<updateDirectoryPath, updateDir, unreadable, archive, copyFaults, md5Disabled, tree, zipRead, allFilesMap, dirsLeft,
                 filesLeft>>

\* handleNewFile: what follows the answer to "Enter destination directory
\* relative to CARBON_HOME".
DestinationOutcome(t, filename, isDir, line) ==
  LET relativeLocationInDistribution == TrimDestination(line)
  IN IF DestinationExists(t, filename, isDir, relativeLocationInDistribution)
     THEN "CopyingExists"
     ELSE IF Len(relativeLocationInDistribution) > 0 THEN "AwaitingConfirmation"
     ELSE "CopyingEmpty"

\* handleNewFile: the results its copy may leave in each of its three branches.
NewFileCopies(m, t, inv, filename, isDir, location, branch) ==
  IF branch = "CopyingExists" /\ ~isDir
  THEN {copyFile(m, t, filename, location)}
  ELSE CopyAllMatching(m, t, inv, filename, location)

AnswerDestination ==
  /\ phase = "resolve" /\ st = "AwaitingDestination"
  /\ \E line \in DestinationInputs :
       LET outcome == DestinationOutcome(tree, cur.name, cur.isDir, line)
           location == TrimDestination(line)
       IN CASE outcome = "CopyingExists" ->
                 \E m \in NewFileCopies(Staging, tree, allFilesMap, cur.name, cur.isDir,
                                        location, outcome) :
                   Finish(cur, m, "exists", <<>>, <<location>>)
            [] outcome = "AwaitingConfirmation" ->
                 Prompt(outcome) /\ dest' = location
            [] OTHER ->
                 \E m \in NewFileCopies(Staging, tree, allFilesMap, cur.name, cur.isDir,
                                        location, outcome) :
                   Finish(cur, m, "empty", <<>>, <<location>>)
  /\ UNCHANGED <<updateDirectoryPath, updateDir, unreadable, archive, copyFaults, md5Disabled, tree, zipRead, allFilesMap, dirsLeft,
                 filesLeft>>

\* Mutant of ConfirmationOutcome: whatever the answer, the question is asked
\* again.
ConfirmationOutcomeAsksForever(line) == "AwaitingConfirmation"

\* handleNewFile: what follows the answer to "Copy anyway? [y/n/R]". The break
\* of the REENTER case leaves the switch, not the loop around it, so the same
\* question is asked again.
ConfirmationOutcome(line) ==
  LET preference == IF Len(line) = 0 THEN S("r") ELSE line
      userPreference == ProcessUserPreference(preference)
  IN CASE userPreference = "YES" -> "Copying"
       [] userPreference = "NO" -> "Skipped"
       [] userPreference = "REENTER" -> "AwaitingConfirmation"
       [] OTHER -> "AwaitingConfirmation"

AnswerCopyAnyway ==
  /\ phase = "resolve" /\ st = "AwaitingConfirmation"
  /\ \E line \in PreferenceInputs :
       LET outcome == ConfirmationOutcome(line)
       IN CASE outcome = "Copying" ->
                 \E m \in NewFileCopies(Staging, tree, allFilesMap, cur.name, cur.isDir,
                                        dest, outcome) :
                   Finish(cur, m, "anyway", <<>>, <<dest>>)
            [] outcome = "Skipped" ->
                 Finish(cur, Staging, "refused", <<>>, <<>>)
            [] OTHER -> Prompt(outcome) /\ UNCHANGED dest
  /\ UNCHANGED <<updateDirectoryPath, updateDir, unreadable, archive, copyFaults, md5Disabled, tree, zipRead, allFilesMap, dirsLeft,
                 filesLeft>>

\* handleMultipleMatches: the selectedIndices read from a line.
SelectedIndices(line) == SortStrings(Split(TrimSpace(line), ","))

\* handleMultipleMatches: the destinations its copy loops go through.
SelectedLocations(indexMap, selectedIndices) ==
  [i \in 1..Len(selectedIndices) |-> IndexLookup(indexMap, selectedIndices[i])]

\* handleMultipleMatches: what follows the answer to "Enter preference(s)",
\* length being len(indexMap).
SelectionOutcome(line, length) ==
  LET selectedIndices == SelectedIndices(line)
  IN IF ~IsUserPreferencesValid(selectedIndices, length) THEN "AwaitingSelection"
     ELSE IF selectedIndices[1] = Itoa(0) THEN "Skipped"
     ELSE "Copying"

AnswerSelection ==
  /\ phase = "resolve" /\ st = "AwaitingSelection"
  /\ \E line \in SelectionInputs :
       LET selectedIndices == SelectedIndices(line)
           indexMap == generateLocationTable(FindMatches(tree, cur.name, cur.isDir))
           outcome == SelectionOutcome(line, Cardinality(DOMAIN indexMap))
       IN CASE outcome = "AwaitingSelection" -> Prompt(outcome) /\ UNCHANGED dest
            [] outcome = "Skipped" ->
                 Finish(cur, Staging, "skipped", <<>>, <<>>)
            [] OTHER ->
                 \E m \in CopySelected(Staging, tree, allFilesMap, cur.name, cur.isDir,
                                       indexMap, selectedIndices, md5Disabled) :
                   Finish(cur, m, "multi", selectedIndices,
                          SelectedLocations(indexMap, selectedIndices))
  /\ UNCHANGED <<updateDirectoryPath, updateDir, unreadable, archive, copyFaults, md5Disabled, tree, zipRead, allFilesMap, dirsLeft,
                 filesLeft>>

\* util.CopyFile(path.Join(updateRoot, filename), ...) in copyResourceFiles
\* fails when the update directory fs holds no file of that name or when the
\* copy of that file is among faults.
ResourceCopyFails(fs, faults, filename) ==
  \/ ~\E e \in fs : e.relativePath = filename /\ ~e.isDir
  \/ \E f \in faults : f.source = filename /\ f.at = "CopyFile"

\* copyResourceFiles(resourceFilesMap), the range over the map visiting files
\* in this order: the resource files copied to temp/<update name>/, and
\* whether it returns an error. The copy of a mandatory file that fails ends
\* the range with the error, that of an optional file is reported only.
RECURSIVE copyResourceFiles(_, _, _, _)
copyResourceFiles(files, resourceFilesMap, fs, faults) ==
  IF Len(files) = 0 THEN [copied |-> <<>>, failed |-> FALSE]
  ELSE LET filename == Head(files)
           rest == copyResourceFiles(Tail(files), resourceFilesMap, fs, faults)
       IN IF ResourceCopyFails(fs, faults, filename)
          THEN IF resourceFilesMap[filename]
               THEN [copied |-> <<>>, failed |-> TRUE]
               ELSE rest
          ELSE [copied |-> <<filename>> \o rest.copied, failed |-> rest.failed]

\* How the calls after copyResourceFiles go: "nil" when none of them fails,
\* "package" when marshalUpdateDescriptor, saveUpdateDescriptor or
\* archiver.Zip returns an error, which createUpdate hands to
\* util.HandleErrorAndExit at once, whichever of them it is.
PackagingFailures == {"nil", "package"}

\* createUpdate steps 8 on: both loops are over. The resource files are
\* copied, the descriptor is saved, the update zip is written, temp is
\* removed and the validation of the zip is started; an error of one of the
\* calls before ends the run at util.HandleErrorAndExit, with no update zip
\* and temp left behind.
CreateZip ==
  /\ phase = "resolve" /\ st = "Idle"
  /\ dirsLeft = {} /\ filesLeft = {}
  /\ \E resourceFilesMap \in ResourceFileMaps :
       \E files \in Orders(DOMAIN resourceFilesMap) :
         \E failure \in PackagingFailures :
           LET r == copyResourceFiles(files, resourceFilesMap, updateDir, copyFaults)
               err == IF r.failed THEN "copyResourceFiles" ELSE failure
           IN /\ packaging' = [resources |-> r.copied, err |-> err,
                               zip |-> (err = "nil"),
                               tempRemoved |-> (err = "nil"),
                               validation |-> (err = "nil")]
              /\ phase' = IF err = "nil" THEN "done" ELSE "exited"
  /\ UNCHANGED <<updateDirectoryPath, updateDir, unreadable, archive, copyFaults, md5Disabled, tree, zipRead, allFilesMap, dirsLeft,
                 filesLeft, st, cur, dest, copies, added, modified, last, copyErr>>

Next ==
  \/ ReadDirectory
  \/ ReadZipEntry
  \/ ReadZipDone
  \/ NoMatchFound
  \/ SingleMatchFound
  \/ MultipleMatchesFound
  \/ AnswerAddNew
  \/ AnswerDestination
  \/ AnswerCopyAnyway
  \/ AnswerSelection
  \/ CreateZip

Spec == Init /\ [][Next]_vars

\* The same program, the update directory being named by its clean path or by
\* one that readDirectory's strings.TrimPrefix(absolutePath, root + "/")
\* finds no prefix for.
SpecTypedPaths == InitTypedPaths /\ [][Next]_vars

\* The same program with read failures and kind collisions among its inputs.
SpecFaults == InitFaults /\ [][Next]_vars

\* The same program, the distribution being the one of Init or one with an
\* entry name that begins with a separator.
SpecSlashNames == InitSlashNames /\ [][Next]_vars

\* The prompts a handler may wait at.
Prompts ==
  {"AwaitingAddNew", "AwaitingDestination", "AwaitingConfirmation", "AwaitingSelection"}

\* The user types a line at prompt p that is not answered by the same prompt.
UserLeaves(p) == st = p /\ st' \in (Prompts \cup {"Idle"}) \ {p}

\* Between two handlers the loops of createUpdate go on: with the next entry,
\* or past the loops to the packaging of the update, which writes the update
\* zip or ends the run on an error.
LoopGoesOn ==
  /\ phase = "resolve" /\ st = "Idle"
  /\ phase' \in {"resolve", "done", "exited"}
  /\ dirsLeft' \in SUBSET dirsLeft
  /\ filesLeft' \in SUBSET filesLeft

\* The program with its inputs readable, where the loops of createUpdate go on
\* and at each prompt the user sooner or later types a line that ends it.
SpecLive ==
  /\ Init /\ [][Next]_vars
  /\ \A p \in Prompts : WF_st(UserLeaves(p))
  /\ WF_<<phase, dirsLeft, filesLeft>>(LoopGoesOn)

\* The same program with a file of the update directory that cannot be copied.
SpecCopyFaults == InitCopyFaults /\ [][Next]_vars

\* ------------------------------------------------------------------ claims
\* The copies made by the handler of the latest finished entry.
LastCopies == SubSeq(copies, last.from + 1, Len(copies))
\* The records that handler appended to the two lists.
LastRecords == Len(added) + Len(modified) - last.records
\* The path of name below location, relative to carbon.home.
Below(location, name) == JoinSlash(NonEmpty(Split(location, "/")) \o <<name>>)
\* The flows that end in a copy.
CopyFlows == {"single", "multi", "exists", "anyway", "empty"}
\* The key of the parent of node k.
Parent(k) == SubSeq(k, 1, Len(k) - 1)
\* Node k is one FindMatches can visit: every node from the root down to k
\* is a directory.
ReachedThroughDirectories(t, k) == \A i \in 1..Len(k) : t[SubSeq(k, 1, i)].isDir

\* C1 (as claimed): while the zip is read, every entry read so far is found by
\* PathExists under its path (a directory entry's closing "/" aside) with its
\* declared kind.
C1_IndexRoundTrip ==
  phase = "index" =>
    \A e \in zipRead : PathExists(tree, TrimSuffix(e.name, SEP), e.isDir)

\* C2 (as claimed): whenever a node has a direct child of name N and kind K,
\* the node's relative location is a key of FindMatches(root, N, K).
C2_MatchingComplete ==
  \A k \in DOMAIN tree \ {RootKey} :
    tree[Parent(k)].relativeLocation \in FindMatches(tree, tree[k].name, tree[k].isDir)

\* C2 (amended): whenever a node that is the root or is reached from the root
\* through directory nodes only has a direct child of name N and kind K, the
\* node's relative location is a key of FindMatches(root, N, K), whatever else
\* matches.
C2_MatchingCompleteBelowDirectories ==
  \A k \in DOMAIN tree \ {RootKey} :
    ReachedThroughDirectories(tree, Parent(k)) =>
      tree[Parent(k)].relativeLocation
        \in FindMatches(tree, tree[k].name, tree[k].isDir)

\* C2 witness: a name is matched at the root and again one level down.
C2_Witness ==
  \E k \in DOMAIN tree :
    /\ Len(k) = 2
    /\ tree[k].name # EmptyStr
    /\ ReachedThroughDirectories(tree, Parent(k))
    /\ <<tree[k].name>> \in DOMAIN tree
    /\ tree[<<tree[k].name>>].isDir = tree[k].isDir
    /\ Cardinality(FindMatches(tree, tree[k].name, tree[k].isDir)) >= 2

\* C3 (as claimed): at the "Copy anyway?" prompt, the answer r and the empty
\* answer both lead to the destination prompt.
C3_ReenterAsksDestination ==
  st = "AwaitingConfirmation" =>
    \A line \in {EmptyStr, S("r")} : ConfirmationOutcome(line) = "AwaitingDestination"

\* Entry x of the update directory is in the inventory readDirectory built,
\* under the key readDirectory gave it.
InventoryKey ==
  [root \in UpdateDirectoryPaths, x \in UNION UpdateDirs |-> RelativePath(root, x)]
InInventory(x) == InventoryKey[updateDirectoryPath, x] \in DOMAIN allFilesMap

\* The files of the inventory that lie below the root level directory name,
\* by their paths relative to the update directory.
InventoryFilesBelow(name) ==
  {x.relativePath :
     x \in {y \in updateDir :
              InInventory(y) /\ ~y.isDir /\ HasPrefix(y.relativePath, name \o SEP)}}

\* The MD5 sum the inventory holds for the file at relative path f.
InventoryMD5(f) ==
  (CHOOSE x \in updateDir : x.relativePath = f /\ ~x.isDir).md5

\* C4 (as claimed): the handling of a root level file that ends in a copy makes
\* one copy of the file to location/name for each location it chose, and appends
\* as many records.
C4_FileCopiedOncePerLocation ==
  (~last.isDir /\ last.flow \in CopyFlows) =>
    /\ Len(LastCopies) = Len(last.locations)
    /\ LastRecords = Len(last.locations)
    /\ \A i \in 1..Len(LastCopies) :
         /\ LastCopies[i].source = last.name
         /\ LastCopies[i].fullPath = Below(last.locations[i], last.name)

\* C5 (as claimed): the handling of a root level directory copies only files of
\* the inventory that lie below the directory, each to location/path, and, when
\* the MD5 check is disabled, all of them to each location it chose.
C5_DirectoryCopiesItsSubtree ==
  (last.isDir /\ last.flow \in CopyFlows) =>
    /\ \A i \in 1..Len(LastCopies) :
         /\ HasPrefix(LastCopies[i].source, last.name \o SEP)
         /\ LastCopies[i].fullPath = Below(LastCopies[i].location, LastCopies[i].source)
    /\ md5Disabled =>
         \A j \in 1..Len(last.locations) :
           {LastCopies[i].source :
              i \in {n \in 1..Len(LastCopies) : LastCopies[n].location = last.locations[j]}}
             = InventoryFilesBelow(last.name)

\* The MD5 sum of inventory file f equals that of the file node at location/f.
SameAsBaseline(location, f) ==
  CompareMD5(tree, PathJoin(location, f), InventoryMD5(f))

\* C6 (as claimed): with the MD5 check enabled, the handling of a single match
\* copies no file whose sum equals that of the file node at its destination.
C6_HashSkipOnSingleMatch ==
  (~md5Disabled /\ last.flow = "single") =>
    \A i \in 1..Len(LastCopies) :
      ~SameAsBaseline(LastCopies[i].location, LastCopies[i].source)

\* The files the handling of the latest entry had to copy to each location.
LastDestined ==
  IF last.isDir
  THEN InventoryFilesBelow(last.name)
  ELSE {last.name}

\* C7 (as claimed): outside the single match flow, a file whose sum equals that
\* of the file node at a chosen destination is copied there all the same.
C7_NoHashSkipElsewhere ==
  (last.flow \in {"multi", "exists", "anyway", "empty"}) =>
    \A j \in 1..Len(last.locations) : \A f \in LastDestined :
      SameAsBaseline(last.locations[j], f) =>
        \E i \in 1..Len(LastCopies) :
          /\ LastCopies[i].source = f
          /\ LastCopies[i].location = last.locations[j]

\* C8 (as claimed): a selection that holds 0 never ends in a copy.
C8_ZeroSentinel ==
  last.flow = "multi" =>
    \A i \in 1..Len(last.selected) : last.selected[i] # Itoa(0)

\* The k-th of the paths in byte-wise lexicographic order.
KthPath(paths, k) ==
  CHOOSE p \in paths : Cardinality({q \in paths : StrLess(q, p)}) = k - 1

\* C9: after a selection without 0 of a multiple match, each selected index k
\* stands for the k-th candidate path in lexicographic order; a file entry is
\* copied once to each selected path, in the order of the sorted selection, and
\* a directory entry has each of its files that the MD5 check lets through
\* copied to each selected path, and nothing anywhere else.
C9_SelectionIndexMapping ==
  (last.flow = "multi" /\ \A i \in 1..Len(last.selected) : last.selected[i] # Itoa(0)) =>
    LET candidates == FindMatches(tree, last.name, last.isDir)
        N == Cardinality(candidates)
    IN /\ Len(last.locations) = Len(last.selected)
       /\ \A i \in 1..Len(last.selected) :
            \E k \in 1..N : /\ last.selected[i] = Itoa(k)
                            /\ last.locations[i] = KthPath(candidates, k)
       /\ ~last.isDir =>
            /\ Len(LastCopies) = Len(last.selected)
            /\ \A i \in 1..Len(LastCopies) :
                 /\ LastCopies[i].source = last.name
                 /\ \E k \in 1..N : /\ last.selected[i] = Itoa(k)
                                    /\ LastCopies[i].location = KthPath(candidates, k)
       /\ last.isDir =>
            /\ \A i \in 1..Len(LastCopies) :
                 \E j \in 1..Len(last.selected) : \E k \in 1..N :
                   /\ last.selected[j] = Itoa(k)
                   /\ LastCopies[i].location = KthPath(candidates, k)
            /\ \A j \in 1..Len(last.selected) :
                 \A f \in getAllMatchingFiles(last.name, allFilesMap) :
                   (md5Disabled \/ ~SameAsBaseline(last.locations[j], f)) =>
                     \E i \in 1..Len(LastCopies) :
                       /\ LastCopies[i].source = f
                       /\ LastCopies[i].location = last.locations[j]

\* C9 witness: a file entry with two candidates was copied to both, the second
\* candidate not being the root.
C9_Witness ==
  /\ last.flow = "multi" /\ ~last.isDir
  /\ last.selected = <<Itoa(1), Itoa(2)>>
  /\ Len(LastCopies) = 2
  /\ LastCopies[1].location # LastCopies[2].location

\* C10 (as claimed): at the selection prompt, a line without 0 that holds an
\* entry that is no index from 1 to N brings the same prompt again; and the
\* copies of a multiple match go to candidate locations only.
C10_InvalidSelectionAsksAgain ==
  /\ st = "AwaitingSelection" =>
       LET N == Cardinality(FindMatches(tree, cur.name, cur.isDir))
       IN \A line \in SelectionInputs :
            LET entries == Split(TrimSpace(line), ",")
            IN (/\ \A i \in 1..Len(entries) : entries[i] # Itoa(0)
                /\ \E i \in 1..Len(entries) : \A k \in 1..N : entries[i] # Itoa(k))
               => SelectionOutcome(line, N) = "AwaitingSelection"
  /\ last.flow = "multi" =>
       \A i \in 1..Len(LastCopies) :
         LastCopies[i].location \in FindMatches(tree, last.name, last.isDir)

\* The first half of C10 alone.
C10_AsksAgain ==
  st = "AwaitingSelection" =>
    LET N == Cardinality(FindMatches(tree, cur.name, cur.isDir))
    IN \A line \in SelectionInputs :
         LET entries == Split(TrimSpace(line), ",")
         IN (/\ \A i \in 1..Len(entries) : entries[i] # Itoa(0)
             /\ \E i \in 1..Len(entries) : \A k \in 1..N : entries[i] # Itoa(k))
            => SelectionOutcome(line, N) = "AwaitingSelection"

\* The tree holds a node of the given kind whose path from the root is p.
NodeAt(t, p, isDir) ==
  LET k == Split(p, "/")
  IN k \in DOMAIN t \ {RootKey} /\ t[k].isDir = isDir
\* The destination paths of the copies made so far, in order.
CopyPaths == [i \in 1..Len(copies) |-> copies[i].fullPath]
\* How often x occurs in seq.
Count(seq, x) == Cardinality({i \in 1..Len(seq) : seq[i] = x})

\* C11: there are as many records as copies; the record of a copy is its
\* destination path location/source relative to the baseline root; the copies
\* to a path at which the baseline holds a file node are all recorded in
\* Modified, and those to a path at which it holds no node all in Added.
C11_ClassificationCorrect ==
  /\ Len(added) + Len(modified) = Len(copies)
  /\ \A i \in 1..Len(copies) :
       LET p == copies[i].fullPath
       IN /\ p = Below(copies[i].location, copies[i].source)
          /\ NodeAt(tree, p, FALSE) =>
               Count(modified, p) = Count(CopyPaths, p) /\ Count(added, p) = 0
          /\ (~NodeAt(tree, p, FALSE) /\ ~NodeAt(tree, p, TRUE)) =>
               Count(added, p) = Count(CopyPaths, p) /\ Count(modified, p) = 0

\* C11 witness: one copy went over a file of the baseline and one to a path
\* the baseline does not hold.
C11_Witness ==
  /\ \E i \in 1..Len(copies) : NodeAt(tree, copies[i].fullPath, FALSE)
  /\ \E i \in 1..Len(copies) :
       ~NodeAt(tree, copies[i].fullPath, FALSE) /\ ~NodeAt(tree, copies[i].fullPath, TRUE)
  /\ Len(added) >= 1 /\ Len(modified) >= 1

\* C12 (as claimed): no record of Added or Modified is the path of a directory
\* node of the baseline tree or of a directory of the update inventory.
C12_NoDirectoryPath ==
  \A list \in {added, modified} : \A i \in 1..Len(list) :
    /\ ~NodeAt(tree, list[i], TRUE)
    /\ ~\E x \in updateDir : x.isDir /\ InInventory(x) /\ x.relativePath = list[i]

\* C13: the add-as-new question is asked of an entry without match; the empty
\* answer and the answer n end the handling; and a handling that ends at this
\* question makes no copy and no record, asks for no destination, and leaves
\* the run going with the entries that are left.
C13_DeclineSkips ==
  /\ [](st = "AwaitingAddNew" =>
          /\ FindMatches(tree, cur.name, cur.isDir) = {}
          /\ \A line \in {EmptyStr, S("n")} : AddNewOutcome(line) = "Skipped")
  /\ [][(st = "AwaitingAddNew" /\ st' # "AwaitingAddNew") =>
          \/ st' = "AwaitingDestination" /\ AddNewOutcome(S("y")) = st'
          \/ /\ st' = "Idle" /\ phase' = "resolve"
             /\ last'.flow = "declined" /\ last'.name = cur.name
             /\ copies' = copies /\ added' = added /\ modified' = modified
             /\ dirsLeft' = dirsLeft /\ filesLeft' = filesLeft]_vars

\* C13 witness: an entry was declined, and another entry is still to be handled.
C13_Witness ==
  /\ last.flow = "declined" /\ st = "Idle" /\ phase = "resolve"
  /\ NextEntries # {}

\* C14 (as claimed): at the destination prompt, the entry is copied without
\* confirmation if the entered path joined with the entry's name is a node of
\* the entry's kind; if it is not and the entered path is not empty, the
\* confirmation is asked.
C14_DestinationExistsRule ==
  st = "AwaitingDestination" =>
    \A line \in DestinationInputs :
      LET entered == TrimDestination(line)
          joined == PathJoin(entered, cur.name)
          outcome == DestinationOutcome(tree, cur.name, cur.isDir, line)
      IN /\ NodeAt(tree, joined, cur.isDir) => outcome = "CopyingExists"
         /\ (~NodeAt(tree, joined, cur.isDir) /\ entered # EmptyStr)
              => outcome = "AwaitingConfirmation"

\* C14 (amended): at the destination prompt, the entry is copied to the entered
\* path without confirmation if, for a directory entry, the entered path joined
\* with the entry's name is a directory node and, for a file entry, the entered
\* path itself is a directory node; if it is not and the entered path is not
\* empty, the confirmation is asked; a file entry copied this way is copied
\* once.
C14_DestinationDirectoryRule ==
  /\ st = "AwaitingDestination" =>
       \A line \in DestinationInputs :
         LET entered == TrimDestination(line)
             target == IF cur.isDir THEN PathJoin(entered, cur.name) ELSE entered
             outcome == DestinationOutcome(tree, cur.name, cur.isDir, line)
         IN /\ NodeAt(tree, target, TRUE) => outcome = "CopyingExists"
            /\ (~NodeAt(tree, target, TRUE) /\ entered # EmptyStr)
                 => outcome = "AwaitingConfirmation"
  /\ last.flow = "exists" =>
       /\ NodeAt(tree, IF last.isDir THEN PathJoin(last.locations[1], last.name)
                                     ELSE last.locations[1], TRUE)
       /\ \A i \in 1..Len(LastCopies) : LastCopies[i].location = last.locations[1]
       /\ ~last.isDir =>
            Len(LastCopies) = 1 /\ LastCopies[1].source = last.name

\* C14 witness: a file entry was copied to an entered directory of the baseline.
C14_Witness ==
  /\ last.flow = "exists" /\ ~last.isDir
  /\ last.locations[1] # EmptyStr
  /\ Len(LastCopies) = 1

\* C15 (as claimed): an entered destination that holds nothing but separators
\* never brings the confirmation, and the entry is copied to the root of the
\* baseline: each file it stands for has a copy there.
C15_EmptyDestination ==
  /\ st = "AwaitingDestination" =>
       \A line \in DestinationInputs :
         (\A i \in 1..Len(line) : line[i] = "/") =>
           DestinationOutcome(tree, cur.name, cur.isDir, line) # "AwaitingConfirmation"
  /\ (last.flow \in {"exists", "empty"} /\ last.locations = <<EmptyStr>>) =>
       \A f \in LastDestined :
         \E i \in 1..Len(LastCopies) :
           LastCopies[i].source = f /\ LastCopies[i].location = EmptyStr

\* The entries whose handling starts in the step.
Taken ==
  {[name |-> d, isDir |-> TRUE] : d \in dirsLeft \ dirsLeft'}
    \cup {[name |-> f, isDir |-> FALSE] : f \in filesLeft \ filesLeft'}

\* C16: the handling of an entry with exactly one match is over in the step it
\* starts in, without any prompt, and every copy it makes is a copy of the
\* entry, or of a file of the inventory found under its name, to the matched
\* location.
C16_SingleMatchAutomatic ==
  [][\A e \in Taken :
       Cardinality(FindMatches(tree, e.name, e.isDir)) = 1 =>
         /\ st' = "Idle" /\ cur' = NoEntry
         /\ last'.name = e.name /\ last'.isDir = e.isDir
         /\ Len(copies') >= Len(copies)
         /\ \A i \in (Len(copies) + 1)..Len(copies') :
              /\ copies'[i].location \in FindMatches(tree, e.name, e.isDir)
              /\ IF e.isDir
                 THEN copies'[i].source \in getAllMatchingFiles(e.name, allFilesMap)
                 ELSE copies'[i].source = e.name]_vars

\* C16 witness: a file entry was copied to its single match, below the root.
C16_Witness ==
  /\ last.flow = "single" /\ ~last.isDir
  /\ Len(LastCopies) = 1
  /\ LastCopies[1].location # EmptyStr
  /\ FindMatches(tree, last.name, last.isDir) = {LastCopies[1].location}

IsPrefix(s, t) == Len(s) <= Len(t) /\ SubSeq(t, 1, Len(s)) = s
\* What t holds after its prefix s.
Appended(s, t) == SubSeq(t, Len(s) + 1, Len(t))

\* C17: there are always as many records as copies; a step only appends to
\* the lists, and what it appends are the destination paths of the copies it
\* makes, each as often as it is copied to.
C17_OneRecordPerCopy ==
  /\ [](Len(added) + Len(modified) = Len(copies))
  /\ [][/\ IsPrefix(copies, copies')
         /\ IsPrefix(added, added')
         /\ IsPrefix(modified, modified')
         /\ \A i \in (Len(copies) + 1)..Len(copies') :
              LET p == copies'[i].fullPath
                  made == [n \in 1..Len(Appended(copies, copies')) |->
                             Appended(copies, copies')[n].fullPath]
              IN Count(made, p) = Count(Appended(added, added'), p)
                                   + Count(Appended(modified, modified'), p)]_vars

\* C17 witness: one handling copied twice to the same path, and the path is
\* recorded twice.
C17_Witness ==
  /\ last.flow = "multi"
  /\ Len(LastCopies) = 2
  /\ LastCopies[1].fullPath = LastCopies[2].fullPath
  /\ Count(added \o modified, LastCopies[1].fullPath) = 2

\* Entry e of the update directory has an ignored name, or lies below a
\* directory that has one.
AtOrBelowIgnored(e) ==
  \E i \in 1..Len(Split(e.relativePath, "/")) :
    Split(e.relativePath, "/")[i] \in IgnoredFiles

\* C18 (as claimed): once the update directory is read, no entry with an
\* ignored name and no entry below one is in the inventory or among the root
\* level names.
C18_IgnoredSubtreePruned ==
  phase # "scan" =>
    \A e \in updateDir :
      AtOrBelowIgnored(e) =>
        /\ ~InInventory(e)
        /\ e.relativePath \notin dirsLeft \cup filesLeft

\* C19 (as claimed): when a file of the update directory cannot be read, the
\* run does not get past the reading of the update directory.
C19_ScanFailureReported ==
  WalkFails(updateDir, IgnoredFiles, unreadable) => phase \in {"scan", "exited"}

\* C20 (as claimed): once an entry of the zip could not be opened or not be
\* read to its end the run is over, and no node of the tree ever carries the
\* sum of a payload that was not read to its end.
C20_IndexFailureReported ==
  /\ \A e \in zipRead : (~e.opens \/ ~e.readsFully) => phase = "exited"
  /\ \A k \in DOMAIN tree : tree[k].md5Hash # HPartial

\* C21: once a directory creation or a copy has failed in the handling of an
\* entry the run is over: no copy and no record follows the failure, no step
\* is taken any more (no further entry is handled, no resource file is
\* copied, the update zip is not written); no copy of a file whose copy fails
\* is ever counted; and the update zip is written only when no copy failed,
\* every root level entry was taken and none is being handled.
C21_CopyFailureFatal ==
  /\ HandleErrorAndExit(copyErr) =>
       /\ phase = "exited"
       /\ Len(copies) = copyErr.after
       /\ Len(added) + Len(modified) = copyErr.after
       /\ \E f \in copyFaults : f.source = copyErr.source /\ f.at = copyErr.at
       /\ packaging = NoPackaging
  /\ phase = "exited" => ~ENABLED Next
  /\ \A i \in 1..Len(copies) : \A f \in copyFaults : copies[i].source # f.source
  /\ packaging.zip => phase = "done"
  /\ phase = "done" =>
       /\ packaging.zip
       /\ ~HandleErrorAndExit(copyErr)
       /\ dirsLeft = {} /\ filesLeft = {}
       /\ st = "Idle" /\ cur = NoEntry

\* C21 witness: a copy failed after another had been made, while a root level
\* entry was still to be handled.
C21_Witness ==
  /\ phase = "exited"
  /\ copyErr.at \in {"CreateDirectory", "CopyFile"}
  /\ copyErr.after >= 1
  /\ dirsLeft \cup filesLeft # {}

\* C22 (as claimed): when an entry of the zip is added, every segment of its
\* path before the last has a node afterwards, the node it had before or else
\* a new directory node without MD5 sum, and the last segment has a node of
\* the entry's kind and sum.
C22_IntermediateDirectories ==
  [][\A e \in zipRead' \ zipRead :
       e.opens =>
         LET path == Split(e.name, "/")
         IN /\ \A i \in 1..(Len(path) - 1) :
                 LET key == SubSeq(path, 1, i)
                 IN /\ key \in DOMAIN tree'
                    /\ key \in DOMAIN tree => tree'[key] = tree[key]
                    /\ key \notin DOMAIN tree =>
                         tree'[key].isDir /\ tree'[key].md5Hash = ""
            /\ path \in DOMAIN tree'
            /\ tree'[path].isDir = e.isDir
            /\ tree'[path].md5Hash = ComputedMD5(e)]_vars

\* The nodes of t whose relative location is p.
NodesWithPath(t, p) == {k \in DOMAIN t : t[k].relativeLocation = p}

\* C23 (as claimed): every node but the root hangs below a node of the tree
\* under its own name; no two nodes, the root included, have the same relative
\* location; while the zip is read, each entry read so far has exactly one
\* node with its path as relative location; and an entry whose path has a
\* node already leaves that node with the entry's kind and sum.
C23_TreeUniqueness ==
  /\ [](/\ \A k \in DOMAIN tree \ {RootKey} :
            Parent(k) \in DOMAIN tree /\ tree[k].name = k[Len(k)]
        /\ \A k1, k2 \in DOMAIN tree :
            k1 # k2 => tree[k1].relativeLocation # tree[k2].relativeLocation
        /\ phase = "index" =>
            \A e \in zipRead :
              e.opens => Cardinality(NodesWithPath(tree, TrimSuffix(e.name, SEP))) = 1)
  /\ [][\A e \in zipRead' \ zipRead :
          e.opens =>
            \A k \in NodesWithPath(tree, TrimSuffix(e.name, SEP)) \ {RootKey} :
              /\ k \in DOMAIN tree'
              /\ tree'[k].isDir = e.isDir
              /\ tree'[k].md5Hash = ComputedMD5(e)]_vars

\* The names FindMatches is asked for: those of the root level entries of the
\* update directory, and those of the nodes of the tree.
QueriedNames ==
  {e.relativePath : e \in {x \in updateDir : IsRootLevel(x.relativePath)}}
    \cup {tree[k].name : k \in DOMAIN tree}

\* Node k of t has a direct child of the name and the kind.
HasChild(t, k, name, isDir) ==
  Append(k, name) \in DOMAIN t /\ t[Append(k, name)].isDir = isDir

\* What FindMatches leaves for every queried name and kind, in whatever order
\* its ranges visit the children: the keys of the map are those the handlers
\* are given; each key is the relative location of the node stored under it,
\* which is the root or a node reached through directories only and has a
\* direct child of the name and the kind; a node that has the name and the
\* kind itself and no such child is never stored; and when no node has such a
\* child the map is empty.
SoundMatches ==
  \A name \in QueriedNames : \A isDir \in BOOLEAN :
    \A matches \in FindMatchesMaps(tree, name, isDir) :
      /\ DOMAIN matches = FindMatches(tree, name, isDir)
      /\ \A p \in DOMAIN matches :
            /\ matches[p] \in DOMAIN tree
            /\ tree[matches[p]].relativeLocation = p
            /\ ReachedThroughDirectories(tree, matches[p])
            /\ HasChild(tree, matches[p], name, isDir)
            /\ \A k \in DOMAIN tree \ {RootKey} :
                  (/\ tree[k].name = name /\ tree[k].isDir = isDir
                   /\ ~HasChild(tree, k, name, isDir)) => matches[p] # k
      /\ (\A k \in DOMAIN tree : ~HasChild(tree, k, name, isDir))
            => matches = NoMatches

\* C24: the maps FindMatches may fill are sound (SoundMatches) for the tree
\* and the update directory a run starts with and for every tree a step
\* builds, and so at every moment of the run, SoundMatches being about the
\* tree and the update directory alone; a child of the name with the other
\* kind gives no match; and an entry is asked the add-as-new question, or has
\* its handling end in the no match flow, if and only if its map is empty.
C24_FindMatchesSound ==
  /\ SoundMatches
  /\ [][(tree' # tree \/ updateDir' # updateDir) => SoundMatches']_vars
  /\ [](/\ st \in {"AwaitingAddNew", "AwaitingDestination", "AwaitingConfirmation"}
            => FindMatches(tree, cur.name, cur.isDir) = {}
       /\ st = "AwaitingSelection" => FindMatches(tree, cur.name, cur.isDir) # {}
       /\ last.flow \in {"declined", "exists", "anyway", "refused", "empty"}
            <=> (last.flow # "none" /\ FindMatches(tree, last.name, last.isDir) = {}))

\* C24 witness: the add-as-new question is asked of an entry that matches
\* nowhere, after an entry whose name is matched under one key at two nodes
\* neither of which is above the other, so that the node stored under the key
\* depends on the order of the range; the root has a child of that name and
\* kind, and nothing matches the name with the other kind.
C24_Witness ==
  /\ st = "AwaitingAddNew"
  /\ FindMatchesMaps(tree, cur.name, cur.isDir) = {NoMatches}
  /\ Cardinality(FindMatchesMaps(tree, last.name, last.isDir)) >= 2
  /\ HasChild(tree, RootKey, last.name, last.isDir)
  /\ FindMatchesMaps(tree, last.name, ~last.isDir) = {NoMatches}

\* The root level entries of the inventory whose handling is over.
Finished ==
  {[name |-> x.relativePath, isDir |-> x.isDir] :
     x \in {y \in updateDir :
              /\ IsRootLevel(y.relativePath)
              /\ InInventory(y)
              /\ y.relativePath \notin dirsLeft \cup filesLeft}} \ {cur}
\* How a handling ends: after its copy loop (Done) or without a copy (Skipped).
DoneFlows == CopyFlows
SkippedFlows == {"declined", "refused", "skipped"}
\* The entry a step prompts, copies or records for.
ActingIn(stNext, curNext, lastNext) ==
  IF stNext # "Idle" THEN curNext
  ELSE [name |-> lastNext.name, isDir |-> lastNext.isDir]

\* The lines that end each prompt: the user can always type one.
LeavingLines ==
  CASE st = "AwaitingAddNew" ->
         {l \in PreferenceInputs : AddNewOutcome(l) # st}
    [] st = "AwaitingDestination" ->
         {l \in DestinationInputs :
            DestinationOutcome(tree, cur.name, cur.isDir, l) # st}
    [] st = "AwaitingConfirmation" ->
         {l \in PreferenceInputs : ConfirmationOutcome(l) # st}
    [] st = "AwaitingSelection" ->
         {l \in SelectionInputs :
            SelectionOutcome(l, Cardinality(FindMatches(tree, cur.name, cur.isDir))) # st}
    [] OTHER -> {}

\* C25: at each prompt some line ends it, and when the user types such a line
\* sooner or later, the run gets from wherever it is among the entries, at a
\* prompt or between two handlers, past the loops to the packaging of the
\* update (the update zip written, or the run ended by an error of the
\* packaging), where no handler waits any more; the handler that leaves its prompts has ended the
\* handling of its entry, Done or Skipped; the handling that ends Skipped has
\* made no copy and no record;
\* and once the handling of an entry is over it stays over: no step prompts,
\* copies or records for that entry, and the entry is never taken again.
C25_EntryTerminates ==
  /\ [](st \in Prompts => LeavingLines # {})
  /\ (phase = "resolve") ~> (phase \in {"done", "exited"} /\ st = "Idle" /\ cur = NoEntry)
  /\ [][(st \in Prompts /\ st' = "Idle") =>
          /\ last'.name = cur.name /\ last'.isDir = cur.isDir
          /\ last'.flow \in DoneFlows \cup SkippedFlows
          /\ cur \in Finished']_vars
  /\ [](last.flow \in SkippedFlows => (Len(LastCopies) = 0 /\ LastRecords = 0))
  /\ [][\A e \in Finished :
          /\ e \in Finished'
          /\ e \notin Taken
          /\ (st' # st \/ cur' # cur \/ copies' # copies \/ added' # added
                \/ modified' # modified \/ last' # last)
               => ActingIn(st', cur', last') # e]_vars

\* C25 witness: one entry ended Done after the destination and the
\* confirmation prompt, and the one after it ended Skipped.
C25_Witness ==
  /\ last.flow \in SkippedFlows
  /\ Len(copies) >= 1
  /\ \E i \in 1..Len(copies) : copies[i].location # EmptyStr
  /\ Cardinality(Finished) = 2
  /\ FindMatches(tree, last.name, last.isDir) = {}

\* C26: the search for an entry begins only when no handler is at work, for
\* one entry at a time; while a handler waits at a prompt no other entry is
\* searched for and the handler's entry stays the same; and every copy of a
\* step is made by the one handler at work in it, of its entry or of a file
\* of the inventory found under its entry's name.
C26_Sequential ==
  /\ [](st = "Idle" <=> cur = NoEntry)
  /\ [][/\ Cardinality(Taken) <= 1
        /\ Taken # {} => (st = "Idle" /\ cur = NoEntry)
        /\ st # "Idle" => (Taken = {} /\ (st' = "Idle" \/ cur' = cur))
        /\ Len(copies') > Len(copies) =>
             /\ st' = "Idle"
             /\ \E e \in IF st # "Idle" THEN {cur} ELSE Taken :
                  /\ last'.name = e.name /\ last'.isDir = e.isDir
                  /\ \A i \in (Len(copies) + 1)..Len(copies') :
                       \/ copies'[i].source = e.name
                       \/ copies'[i].source \in getAllMatchingFiles(e.name, allFilesMap)]_vars

\* C26 witness: two entries were handled one after the other, the first by
\* copies and the second, after a prompt, by copies too.
C26_Witness ==
  /\ Cardinality(Finished) = 2
  /\ last.flow \in {"multi", "exists", "anyway"}
  /\ Len(LastCopies) >= 1
  /\ last.from >= 1

\* C27: once the update directory is read the inventory does not change, and
\* once the zip is read the tree does not change: no search, prompt or copy
\* changes a node or an entry; and a copy leaves no trace in the tree: a path
\* that was copied to is classified again as it was the first time, by what
\* PathExists finds in the tree as it was built.
C27_BaselineFrozen ==
  /\ [][/\ phase # "scan" => allFilesMap' = allFilesMap /\ updateDir' = updateDir
        /\ phase \notin {"scan", "index"} => tree' = tree]_vars
  /\ [](\A i \in 1..Len(copies) :
          LET p == copies[i].fullPath
          IN IF PathExists(tree, p, FALSE)
             THEN Count(modified, p) = Count(CopyPaths, p) /\ Count(added, p) = 0
             ELSE Count(added, p) = Count(CopyPaths, p) /\ Count(modified, p) = 0)

\* C27 witness: a path the baseline does not hold was copied to by two
\* handlers, and is recorded as added both times.
C27_Witness ==
  /\ Len(LastCopies) >= 1
  /\ \E i \in 1..last.from :
       /\ copies[i].fullPath = LastCopies[1].fullPath
       /\ ~PathExists(tree, copies[i].fullPath, FALSE)
       /\ Count(added, copies[i].fullPath) >= 2
  /\ phase = "resolve"

\* C28: no path is both in Added and in Modified; every path in Modified is
\* the path of a file node of the tree, and no path in Added is.
C28_AddedModifiedDisjoint ==
  /\ \A i \in 1..Len(added) : \A j \in 1..Len(modified) : added[i] # modified[j]
  /\ \A j \in 1..Len(modified) : NodeAt(tree, modified[j], FALSE)
  /\ \A i \in 1..Len(added) : ~NodeAt(tree, added[i], FALSE)

\* C28 witness: one path was copied to twice and is in Modified twice, while
\* another path is in Added.
C28_Witness ==
  /\ \E j \in 1..Len(modified) : Count(modified, modified[j]) >= 2
  /\ Len(added) >= 1

====
